---- MODULE Spec2Model ----
(***************************************************************************)
(* The CONIKS audit log (protocol/auditlog) and the client cross-check     *)
(* exercised by protocol/kt_test.go.                                       *)
(*                                                                         *)
(* A signed tree root (STR, the spec's Snapshot) is a record               *)
(*   [epoch, root, prev, sig].                                             *)
(* The hash is modelled as an injective tagging of its argument, a         *)
(* signature over an STR's bytes as the key that produced it ("forged" for  *)
(* bytes that are the signature of no key).                                *)
(***************************************************************************)
EXTENDS Integers, Sequences, FiniteSets, TLC

\* ---------------------------------------------------------------- bounds
\* Width of the epoch counter (uint64 in the program).
EpochBits == 2
\* Longest snapshot list handed to InitHistory.
MaxSnaps == 2
\* Longest STR range handed to AuditId.
MaxRange == 2
\* Longest hash chain the environment builds.
MaxChain == 2
\* Longest snapshot list and longest STR range handed to a log that watches
\* several directories.
MaxDirsLen == 1

EpochMod == 2 ^ EpochBits
MaxEpoch == EpochMod - 1
Epochs == 0 .. MaxEpoch

Roots == {1, 2}
Keys == {"k1", "k2"}
\* The directories a caller is configured with: address and public key.
Configs == {[addr |-> "addr-of-test-dir", signKey |-> "k1"],
            [addr |-> "addr-2", signKey |-> "k2"]}
Clients == {"cLook1"}

\* ---------------------------------------------------------------- values
Hash(x) == <<"hash", x>>
ZeroHash == <<"hash", <<>>>>

\* The canonical encoding of an STR: all of its fields.
Encode(s) == <<s.epoch, s.root, s.prev, s.sig>>

Sign(k) == k
Forged == "forged"

\* sign.PublicKey.Verify over the STR's own serialization.
Verify(pk, s) == s.sig = pk

\* The nil *protocol.DirSTR: what a Go map read returns for an absent key.
NilSTR == [epoch |-> -1, root |-> 0, prev |-> ZeroHash, sig |-> Forged]

STR(e, r, p, sg) == [epoch |-> e, root |-> r, prev |-> p, sig |-> sg]

\* auditor.ComputeDirectoryIdentity: the hash of the initial STR.
ComputeDirectoryIdentity(s) == Hash(Encode(s))

\* Error values.
Ok == "nil"
ErrMalformedMessage == "ErrMalformedMessage"
ErrAuditLog == "ErrAuditLog"
ReqUnknownDirectory == "ReqUnknownDirectory"
ErrNotFound == "auditor: could not find id in map"
InvalidChain == "InvalidChain"
ProofVerificationFailed == "ProofVerificationFailed"
KeyMismatch == "KeyMismatch"
EquivocationDetected == "EquivocationDetected"

Response(strs) == [err |-> Ok, strs |-> strs]
NewErrorResponse(e) == [err |-> e, strs |-> <<>>]
\* The call that never returns.
NoReturn == [err |-> "no return", strs |-> <<>>]

\* ------------------------------------------------------- auditor.AudState
\* Replaces the latest verified STR of an audit state.
Update(h, newVerified) == [h EXCEPT !.verifiedSTR = newVerified]

VerifiedSTR(h) == h.verifiedSTR

\* Chain admission of one candidate against a trusted predecessor.
verifySTRConsistency(signKey, prevSTR, str) ==
    /\ str.epoch = (prevSTR.epoch + 1) % EpochMod
    /\ str.prev = Hash(Encode(prevSTR))
    /\ Verify(signKey, str)

\* Sequential validation of a range, starting from prevSTR; nothing is stored.
RECURSIVE VerifySTRRange(_, _, _)
VerifySTRRange(signKey, prevSTR, strs) ==
    IF strs = <<>> THEN Ok
    ELSE IF ~verifySTRConsistency(signKey, prevSTR, Head(strs)) THEN InvalidChain
    ELSE VerifySTRRange(signKey, Head(strs), Tail(strs))

AuditDirectory(h, strs) ==
    IF Len(strs) = 0 THEN ErrMalformedMessage
    ELSE VerifySTRRange(h.signKey, VerifiedSTR(h), strs)

\* protocol.Response.Validate
Validate(msg) ==
    IF msg.err # Ok THEN msg.err
    ELSE IF Len(msg.strs) = 0 THEN ErrMalformedMessage
    ELSE Ok

\* ------------------------------------------------------ directoryHistory
\* A read of the snapshots map: the zero value for an absent key.
snapshotAt(h, ep) == IF ep \in DOMAIN h.snapshots THEN h.snapshots[ep] ELSE NilSTR

updateVerifiedSTR(h, newVerified) ==
    LET u == Update(h, newVerified)
    IN  [u EXCEPT !.snapshots = (newVerified.epoch :> newVerified) @@ u.snapshots]

RECURSIVE insertRange(_, _)
insertRange(h, snaps) ==
    IF snaps = <<>> THEN h
    ELSE insertRange(updateVerifiedSTR(h, Head(snaps)), Tail(snaps))

newDirectoryHistory(addr, signKey, initSTR) ==
    updateVerifiedSTR([signKey |-> signKey, verifiedSTR |-> initSTR, addr |-> addr,
                       snapshots |-> <<>>], initSTR)

\* Audit as it would be if each STR were stored as soon as it has been checked.
RECURSIVE AuditStep(_, _)
AuditStep(h, strs) ==
    IF strs = <<>> THEN [h |-> h, err |-> Ok]
    ELSE IF ~verifySTRConsistency(h.signKey, VerifiedSTR(h), Head(strs))
    THEN [h |-> h, err |-> InvalidChain]
    ELSE AuditStep(updateVerifiedSTR(h, Head(strs)), Tail(strs))

AuditCommitsPrefix(h, msg) ==
    IF Validate(msg) # Ok THEN [h |-> h, err |-> Validate(msg)]
    ELSE AuditStep(h, msg.strs)

\* The history after the call and the error returned.
Audit(h, msg) ==
    IF Validate(msg) # Ok THEN [h |-> h, err |-> Validate(msg)]
    ELSE IF AuditDirectory(h, msg.strs) # Ok
         THEN [h |-> h, err |-> AuditDirectory(h, msg.strs)]
    ELSE [h |-> insertRange(h, msg.strs), err |-> Ok]

\* ------------------------------------------------------- ConiksAuditLog
New == <<>>

\* set as it would be if it made a new map for the record.
setAlone(l, dirInitHash, dirHistory) == (dirInitHash :> dirHistory)

set(l, dirInitHash, dirHistory) == (dirInitHash :> dirHistory) @@ l

has(l, dirInitHash) == dirInitHash \in DOMAIN l

\* AuditId as it would be if an unknown identity were reported as a malformed
\* message.
AuditIdUnknownIsMalformed(l, dirInitHash, msg) ==
    IF ~has(l, dirInitHash) THEN [log |-> l, err |-> ErrMalformedMessage]
    ELSE LET r == Audit(l[dirInitHash], msg)
         IN  [log |-> set(l, dirInitHash, r.h), err |-> r.err]

\* The log after the call and the error returned.
AuditIdOp(l, dirInitHash, msg) ==
    IF ~has(l, dirInitHash) THEN [log |-> l, err |-> ErrNotFound]
    ELSE LET r == Audit(l[dirInitHash], msg)
         IN  [log |-> set(l, dirInitHash, r.h), err |-> r.err]

\* InitHistory as it would be without the lookup of the identity.
InitHistoryOverwrites(l, addr, signKey, snaps) ==
    IF Len(snaps) < 1 \/ snaps[1].epoch # 0
    THEN [log |-> l, err |-> ErrMalformedMessage]
    ELSE [log |-> set(l, ComputeDirectoryIdentity(snaps[1]),
                      insertRange(newDirectoryHistory(addr, signKey, snaps[1]),
                                  Tail(snaps))),
          err |-> Ok]

\* InitHistory as it would be without the test of the first STR's epoch.
InitHistoryAnyFirst(l, addr, signKey, snaps) ==
    IF Len(snaps) < 1
    THEN [log |-> l, err |-> ErrMalformedMessage]
    ELSE LET dirInitHash == ComputeDirectoryIdentity(snaps[1])
         IN  IF has(l, dirInitHash) THEN [log |-> l, err |-> ErrAuditLog]
             ELSE [log |-> set(l, dirInitHash,
                               insertRange(newDirectoryHistory(addr, signKey, snaps[1]),
                                           Tail(snaps))),
                   err |-> Ok]

InitHistoryOp(l, addr, signKey, snaps) ==
    IF Len(snaps) < 1 \/ snaps[1].epoch # 0
    THEN [log |-> l, err |-> ErrMalformedMessage]
    ELSE LET dirInitHash == ComputeDirectoryIdentity(snaps[1])
         IN  IF has(l, dirInitHash) THEN [log |-> l, err |-> ErrAuditLog]
             ELSE [log |-> set(l, dirInitHash,
                               insertRange(newDirectoryHistory(addr, signKey, snaps[1]),
                                           Tail(snaps))),
                   err |-> Ok]

\* The loop as it would be if it read the entry before the one asked for.
RECURSIVE GetLoopOffByOne(_, _, _, _)
GetLoopOffByOne(h, ep, endEpoch, strs) ==
    IF ep > endEpoch THEN Response(strs)
    ELSE IF Len(strs) >= EpochMod THEN NoReturn
    ELSE GetLoopOffByOne(h, (ep + 1) % EpochMod, endEpoch,
                         Append(strs, snapshotAt(h, ep - 1)))

\* The loop of GetObservedSTRs over a wrapping epoch counter.  A run that
\* returns makes at most EpochMod iterations; a longer one never exits.
RECURSIVE GetLoop(_, _, _, _)
GetLoop(h, ep, endEpoch, strs) ==
    IF ep > endEpoch THEN Response(strs)
    ELSE IF Len(strs) >= EpochMod THEN NoReturn
    ELSE GetLoop(h, (ep + 1) % EpochMod, endEpoch, Append(strs, snapshotAt(h, ep)))

GetObservedSTRsOp(l, req) ==
    IF ~has(l, req.id) THEN NewErrorResponse(ReqUnknownDirectory)
    ELSE LET h == l[req.id]
         IN  IF req.endEpoch > VerifiedSTR(h).epoch \/ req.startEpoch > req.endEpoch
             THEN NewErrorResponse(ErrMalformedMessage)
             ELSE GetLoop(h, req.startEpoch, req.endEpoch, <<>>)

\* GetObservedSTRs as it would be if the read of an absent epoch created the
\* entry, with the zero value.
GetObservedSTRsFillsGaps(l, req) ==
    IF ~has(l, req.id) THEN l
    ELSE IF req.endEpoch > VerifiedSTR(l[req.id]).epoch \/ req.startEpoch > req.endEpoch
    THEN l
    ELSE [l EXCEPT ![req.id].snapshots =
             [ep \in (req.startEpoch .. req.endEpoch) \ DOMAIN @ |-> NilSTR] @@ @]

\* The log after GetObservedSTRs: the call assigns to no record, and the read
\* of an absent key of a map adds no entry.
GetObservedSTRsLog(l, req) == l

\* ------------------------------------------------- client.ConsistencyChecks
\* The client's audit state for its own observations, with the snapshots it
\* has admitted, by epoch.
ClientNewOp(str, signKey) ==
    [signKey |-> signKey, verifiedSTR |-> str, history |-> (str.epoch :> str)]

\* HandleResponse as it would be if every STR of a response had to be the
\* successor of the latest verified one.
HandleResponseSuccessorOnly(c, str, proof) ==
    IF ~verifySTRConsistency(c.signKey, c.verifiedSTR, str)
    THEN [c |-> c, err |-> InvalidChain]
    ELSE [c |-> [c EXCEPT !.verifiedSTR = str,
                          !.history = (str.epoch :> str) @@ c.history],
          err |-> IF proof = Ok THEN Ok ELSE proof]

\* The client after the call and the error returned.  The STR carried by the
\* response is admitted first, then the proof and the expected key are checked.
HandleResponseOp(c, str, proof) ==
    IF str = c.verifiedSTR
    THEN [c |-> c, err |-> IF proof = Ok THEN Ok ELSE proof]
    ELSE IF ~verifySTRConsistency(c.signKey, c.verifiedSTR, str)
    THEN [c |-> c, err |-> InvalidChain]
    ELSE [c |-> [c EXCEPT !.verifiedSTR = str,
                          !.history = (str.epoch :> str) @@ c.history],
          err |-> IF proof = Ok THEN Ok ELSE proof]

\* The epochs of the auditor's range at which the client holds another snapshot.
Diverging(c, strs) ==
    {i \in 1 .. Len(strs) :
        /\ strs[i] # NilSTR
        /\ strs[i].epoch \in DOMAIN c.history
        /\ c.history[strs[i].epoch] # strs[i]}

\* CheckEquivocation as it would be if a range that shares no epoch with the
\* client's history were an error.
CheckEquivocationNeedsOverlap(c, msg) ==
    IF Validate(msg) # Ok THEN Validate(msg)
    ELSE IF Diverging(c, msg.strs) # {} THEN EquivocationDetected
    ELSE IF \A i \in 1 .. Len(msg.strs) : msg.strs[i].epoch \notin DOMAIN c.history
    THEN EquivocationDetected
    ELSE Ok

CheckEquivocationOp(c, msg) ==
    IF Validate(msg) # Ok THEN Validate(msg)
    ELSE IF Diverging(c, msg.strs) # {} THEN EquivocationDetected
    ELSE Ok

\* CheckEquivocation as it would be if the client took the last STR of the
\* auditor's range for its own latest verified STR.
CheckEquivocationAdopts(c, msg) ==
    IF Validate(msg) # Ok \/ msg.strs[Len(msg.strs)] = NilSTR THEN c
    ELSE [c EXCEPT !.verifiedSTR = msg.strs[Len(msg.strs)]]

\* The client after CheckEquivocation: the comparison reads the client's
\* state and assigns to none of it.
CheckEquivocationClient(c, msg) == c

\* ---------------------------------------------------------- environment
\* What directories (honest, forking or faulty) and the network hand to the
\* log and to clients.
RECURSIVE Depth(_)
Depth(hash) == IF hash = ZeroHash THEN 0 ELSE 1 + Depth(hash[2][3])

Genesis == {STR(0, 1, ZeroHash, Sign(k)) : k \in Keys}

\* Candidates offered as the successor of p.
Succ(p) ==
    IF Depth(p.prev) >= MaxChain THEN {}
    ELSE LET e == (p.epoch + 1) % EpochMod
             hp == Hash(Encode(p))
         IN  {STR(e, r, hp, p.sig) : r \in Roots}
             \cup {STR(e, 1, hp, Forged)}
             \cup {STR(w, 1, hp, p.sig) : w \in {(p.epoch + 2) % EpochMod, MaxEpoch}}
             \cup {STR(e, 1, ZeroHash, p.sig)}

RECURSIVE ChainsFrom(_, _)
ChainsFrom(p, n) ==
    IF n = 0 THEN {<<>>}
    ELSE {<<>>} \cup UNION {{<<x>> \o c : c \in ChainsFrom(x, n - 1)} : x \in Succ(p)}

SnapLists ==
    {<<>>}
    \cup UNION {{<<g>> \o c : c \in ChainsFrom(g, MaxSnaps - 1)} : g \in Genesis}
    \cup UNION {{<<x>> : x \in Succ(g)} : g \in Genesis}

Ids == {ComputeDirectoryIdentity(g) : g \in Genesis}

\* ----------------------------------------------------------------- state
VARIABLES
    log,       \* the ConiksAuditLog: directory identity -> directoryHistory
    cc,        \* the clients' ConsistencyChecks, by client
    op,        \* the call that has just returned: its name, arguments and result
    admitted,  \* history: the STRs handed to calls of the log that returned nil, by identity
    wr,        \* an AuditId call in progress, statement by statement
    rd         \* a GetObservedSTRs call in progress, statement by statement

vars == <<log, cc, op, admitted, wr, rd>>

Idle == [name |-> "none"]
NoCall == [pc |-> "idle"]

Init ==
    /\ log = New
    /\ cc = <<>>
    /\ op = Idle
    /\ admitted = <<>>
    /\ wr = NoCall
    /\ rd = NoCall

\* The STRs of a list, as a set.
Elems(strs) == {strs[i] : i \in 1 .. Len(strs)}

Admit(id, strs) ==
    (id :> ((IF id \in DOMAIN admitted THEN admitted[id] ELSE {}) \cup Elems(strs)))
        @@ admitted

\* ------------------------------------------------ calls, one at a time
\* Spec follows a log that watches one directory.
InitHistory ==
    /\ op = Idle
    /\ \E cfg \in Configs, snaps \in SnapLists :
        LET r == InitHistoryOp(log, cfg.addr, cfg.signKey, snaps)
        IN  /\ DOMAIN r.log # DOMAIN log => DOMAIN log = {}
            /\ log' = r.log
            /\ admitted' = IF r.err = Ok
                           THEN Admit(ComputeDirectoryIdentity(snaps[1]), snaps)
                           ELSE admitted
            /\ op' = [name |-> "InitHistory", addr |-> cfg.addr,
                      signKey |-> cfg.signKey, snaps |-> snaps, err |-> r.err]
    /\ UNCHANGED <<cc, wr, rd>>

\* The ranges a caller hands to AuditId for directory id.
Ranges(id) ==
    {Response(c) :
        c \in ChainsFrom(IF has(log, id) THEN VerifiedSTR(log[id])
                         ELSE CHOOSE g \in Genesis : ComputeDirectoryIdentity(g) = id,
                         IF has(log, id) THEN MaxRange ELSE 1)}
    \cup {NewErrorResponse(ErrMalformedMessage)}

AuditId ==
    /\ op = Idle
    /\ \E id \in Ids :
        \E msg \in Ranges(id) :
            LET r == AuditIdOp(log, id, msg)
            IN  /\ log' = r.log
                /\ admitted' = IF r.err = Ok THEN Admit(id, msg.strs) ELSE admitted
                /\ op' = [name |-> "AuditId", id |-> id, msg |-> msg, err |-> r.err]
    /\ UNCHANGED <<cc, wr, rd>>

GetObservedSTRs ==
    /\ op = Idle
    /\ \E id \in Ids, s \in Epochs, e \in Epochs :
        LET req == [id |-> id, startEpoch |-> s, endEpoch |-> e]
        IN  /\ log' = GetObservedSTRsLog(log, req)
            /\ op' = [name |-> "GetObservedSTRs", req |-> req,
                      resp |-> GetObservedSTRsOp(log, req)]
    /\ UNCHANGED <<cc, admitted, wr, rd>>

\* client.New(dir.LatestSTR(), true, dirPk)
ClientNew ==
    /\ op = Idle
    /\ \E c \in Clients \ DOMAIN cc, str \in Genesis, signKey \in Keys :
        /\ cc' = (c :> ClientNewOp(str, signKey)) @@ cc
        /\ op' = [name |-> "ClientNew", c |-> c, err |-> Ok]
    /\ UNCHANGED <<log, admitted, wr, rd>>

HandleResponse ==
    /\ op = Idle
    /\ \E c \in DOMAIN cc :
        \E str \in {cc[c].verifiedSTR}
                   \cup {x \in Succ(cc[c].verifiedSTR) : x.epoch < MaxChain},
           proof \in {Ok, ProofVerificationFailed, KeyMismatch} :
            LET r == HandleResponseOp(cc[c], str, proof)
            IN  /\ cc' = [cc EXCEPT ![c] = r.c]
                /\ op' = [name |-> "HandleResponse", c |-> c, str |-> str,
                          proof |-> proof, err |-> r.err]
    /\ UNCHANGED <<log, admitted, wr, rd>>

\* The client hands the auditor's response to CheckEquivocation.
CheckEquivocation ==
    /\ op.name = "GetObservedSTRs"
    /\ op.resp # NoReturn
    /\ \E c \in DOMAIN cc :
        /\ cc' = [cc EXCEPT ![c] = CheckEquivocationClient(cc[c], op.resp)]
        /\ op' = [name |-> "CheckEquivocation", c |-> c, req |-> op.req,
                  resp |-> op.resp, err |-> CheckEquivocationOp(cc[c], op.resp)]
    /\ UNCHANGED <<log, admitted, wr, rd>>

\* The caller is done with the result of its call.
Return ==
    /\ op # Idle
    /\ op' = Idle
    /\ UNCHANGED <<log, cc, admitted, wr, rd>>

Next ==
    \/ InitHistory
    \/ AuditId
    \/ GetObservedSTRs
    \/ ClientNew
    \/ HandleResponse
    \/ CheckEquivocation
    \/ Return

Spec == Init /\ [][Next]_vars

\* ------------------------------------------- a log of several directories
\* InitHistory and AuditId on a log that watches every directory there is,
\* each set up with its own address and key as newAuditor does.
DirsSnapLists ==
    {<<>>}
    \cup UNION {{<<g>> \o c : c \in ChainsFrom(g, MaxDirsLen - 1)} : g \in Genesis}
    \cup UNION {{<<x>> : x \in Succ(g)} : g \in Genesis}

DirsRanges(id) ==
    {Response(c) :
        c \in ChainsFrom(IF has(log, id) THEN VerifiedSTR(log[id])
                         ELSE CHOOSE g \in Genesis : ComputeDirectoryIdentity(g) = id,
                         MaxDirsLen)}
    \cup {NewErrorResponse(ErrMalformedMessage)}

InitHistoryAnyDir ==
    /\ op = Idle
    /\ \E cfg \in Configs, snaps \in DirsSnapLists :
        LET r == InitHistoryOp(log, cfg.addr, cfg.signKey, snaps)
        IN  /\ snaps # <<>> => snaps[1].sig = cfg.signKey
            /\ log' = r.log
            /\ admitted' = IF r.err = Ok
                           THEN Admit(ComputeDirectoryIdentity(snaps[1]), snaps)
                           ELSE admitted
            /\ op' = [name |-> "InitHistory", addr |-> cfg.addr,
                      signKey |-> cfg.signKey, snaps |-> snaps, err |-> r.err]
    /\ UNCHANGED <<cc, wr, rd>>

AuditIdAnyDir ==
    /\ op = Idle
    /\ \E id \in Ids :
        \E msg \in DirsRanges(id) :
            LET r == AuditIdOp(log, id, msg)
            IN  /\ log' = r.log
                /\ admitted' = IF r.err = Ok THEN Admit(id, msg.strs) ELSE admitted
                /\ op' = [name |-> "AuditId", id |-> id, msg |-> msg, err |-> r.err]
    /\ UNCHANGED <<cc, wr, rd>>

NextDirs ==
    \/ InitHistoryAnyDir
    \/ AuditIdAnyDir
    \/ Return

SpecDirs == Init /\ [][NextDirs]_vars

\* ------------------------------------- calls that run at the same time
\* An AuditId call and a GetObservedSTRs call on one log, each a goroutine
\* that runs statement by statement; the code takes no lock.  The log is set
\* up as the tests do, by InitHistory with the directory's initial STR.
CInitHistory ==
    /\ log = New
    /\ \E cfg \in Configs, g \in Genesis :
        /\ g.sig = cfg.signKey
        /\ log' = InitHistoryOp(log, cfg.addr, cfg.signKey, <<g>>).log
    /\ UNCHANGED <<cc, op, admitted, wr, rd>>

\* AuditId up to the end of AuditDirectory: lookup, Validate and the checks.
WStart ==
    /\ wr = NoCall
    /\ \E id \in DOMAIN log :
        \E msg \in Ranges(id) :
            LET err == IF Validate(msg) # Ok THEN Validate(msg)
                       ELSE AuditDirectory(log[id], msg.strs)
            IN  wr' = IF err # Ok THEN [pc |-> "done", id |-> id, err |-> err]
                      ELSE [pc |-> "update", id |-> id, rest |-> msg.strs]
    /\ UNCHANGED <<log, cc, op, admitted, rd>>

\* updateVerifiedSTR, first statement: h.Update(newVerified)
WUpdate ==
    /\ wr.pc = "update"
    /\ log' = [log EXCEPT ![wr.id] = Update(@, Head(wr.rest))]
    /\ wr' = [wr EXCEPT !.pc = "assign"]
    /\ UNCHANGED <<cc, op, admitted, rd>>

\* updateVerifiedSTR, second statement: the map assignment begins ...
WAssignBegin ==
    /\ wr.pc = "assign"
    /\ wr' = [wr EXCEPT !.pc = "assigning"]
    /\ UNCHANGED <<log, cc, op, admitted, rd>>

\* ... and ends; insertRange goes on to the next STR or AuditId returns.
WAssignEnd ==
    /\ wr.pc = "assigning"
    /\ log' = [log EXCEPT ![wr.id].snapshots =
                              (Head(wr.rest).epoch :> Head(wr.rest)) @@ @]
    /\ wr' = IF Tail(wr.rest) = <<>> THEN [pc |-> "done", id |-> wr.id, err |-> Ok]
             ELSE [pc |-> "update", id |-> wr.id, rest |-> Tail(wr.rest)]
    /\ UNCHANGED <<cc, op, admitted, rd>>

WReturn ==
    /\ wr.pc = "done"
    /\ wr' = NoCall
    /\ UNCHANGED <<log, cc, op, admitted, rd>>

\* GetObservedSTRs: the lookup of the history.
RStart ==
    /\ rd = NoCall
    /\ \E id \in Ids, s \in Epochs, e \in Epochs :
        LET req == [id |-> id, startEpoch |-> s, endEpoch |-> e]
        IN  rd' = IF ~has(log, id)
                  THEN [pc |-> "done", req |-> req,
                        resp |-> NewErrorResponse(ReqUnknownDirectory)]
                  ELSE [pc |-> "check", req |-> req]
    /\ UNCHANGED <<log, cc, op, admitted, wr>>

\* The test of the request against h.VerifiedSTR().Epoch.
RCheck ==
    /\ rd.pc = "check"
    /\ rd' = IF \/ rd.req.endEpoch > VerifiedSTR(log[rd.req.id]).epoch
                \/ rd.req.startEpoch > rd.req.endEpoch
             THEN [pc |-> "done", req |-> rd.req,
                   resp |-> NewErrorResponse(ErrMalformedMessage)]
             ELSE [pc |-> "loop", req |-> rd.req, ep |-> rd.req.startEpoch,
                   strs |-> <<>>]
    /\ UNCHANGED <<log, cc, op, admitted, wr>>

\* The writer is inside the assignment to the map the reader reads.
Racing == wr.pc = "assigning" /\ wr.id = rd.req.id

\* One turn of the loop: the test, the map read and the append.
RLoop ==
    /\ rd.pc = "loop"
    /\ ~Racing
    /\ rd' = IF rd.ep > rd.req.endEpoch
             THEN [pc |-> "done", req |-> rd.req, resp |-> Response(rd.strs)]
             ELSE IF Len(rd.strs) >= EpochMod
             THEN [pc |-> "done", req |-> rd.req, resp |-> NoReturn]
             ELSE [rd EXCEPT !.ep = (rd.ep + 1) % EpochMod,
                             !.strs = Append(rd.strs,
                                             snapshotAt(log[rd.req.id], rd.ep))]
    /\ UNCHANGED <<log, cc, op, admitted, wr>>

\* A map read during the assignment is a data race: it sees the map as it
\* was or as it will be ...
RLoopRace ==
    /\ rd.pc = "loop"
    /\ Racing
    /\ rd.ep <= rd.req.endEpoch
    /\ Len(rd.strs) < EpochMod
    /\ \E seen \in {log[rd.req.id],
                    [log[rd.req.id] EXCEPT !.snapshots =
                        (Head(wr.rest).epoch :> Head(wr.rest)) @@ @]} :
        rd' = [rd EXCEPT !.ep = (rd.ep + 1) % EpochMod,
                         !.strs = Append(rd.strs, snapshotAt(seen, rd.ep))]
    /\ UNCHANGED <<log, cc, op, admitted, wr>>

\* ... or the runtime detects it and ends the process.
RLoopFatal ==
    /\ rd.pc = "loop"
    /\ Racing
    /\ rd.ep <= rd.req.endEpoch
    /\ rd' = [pc |-> "fatal", req |-> rd.req]
    /\ wr' = [pc |-> "fatal"]
    /\ UNCHANGED <<log, cc, op, admitted>>

RReturn ==
    /\ rd.pc = "done"
    /\ rd' = NoCall
    /\ UNCHANGED <<log, cc, op, admitted, wr>>

NextConc ==
    \/ CInitHistory
    \/ WStart
    \/ WUpdate
    \/ WAssignBegin
    \/ WAssignEnd
    \/ WReturn
    \/ RStart
    \/ RCheck
    \/ RLoop
    \/ RLoopRace
    \/ RLoopFatal
    \/ RReturn

SpecConc == Init /\ [][NextConc]_vars

\* ---------------------------------------- a call that runs to its end
\* One GetObservedSTRs call, statement by statement, on a log that InitHistory
\* has set up; a goroutine that can take a step takes it.
TInitHistory ==
    /\ log = New
    /\ rd = NoCall
    /\ \E cfg \in Configs, snaps \in SnapLists :
        log' = InitHistoryOp(log, cfg.addr, cfg.signKey, snaps).log
    /\ UNCHANGED <<cc, op, admitted, wr, rd>>

\* One turn of the loop: the test ep <= req.EndEpoch, the map read, the append
\* and ep++ on the wrapping counter.  The list is followed for its first
\* EpochMod entries.
TLoop ==
    /\ rd.pc = "loop"
    /\ rd' = IF rd.ep > rd.req.endEpoch
             THEN [pc |-> "done", req |-> rd.req, resp |-> Response(rd.strs)]
             ELSE [rd EXCEPT !.ep = (rd.ep + 1) % EpochMod,
                             !.strs = IF Len(rd.strs) >= EpochMod THEN rd.strs
                                      ELSE Append(rd.strs,
                                                  snapshotAt(log[rd.req.id], rd.ep))]
    /\ UNCHANGED <<log, cc, op, admitted, wr>>

NextTerm ==
    \/ TInitHistory
    \/ RStart
    \/ RCheck
    \/ TLoop
    \/ RReturn

SpecTerm ==
    /\ Init
    /\ [][NextTerm]_vars
    /\ WF_vars(RCheck)
    /\ WF_vars(TLoop)

\* ------------------------------------------------------------ properties
\* Chain admission of the j-th STR of a range (1-based) by history h: its
\* predecessor is the latest verified STR for the first, the STR before it
\* for the others.
Pred(h, strs, j) == IF j = 1 THEN h.verifiedSTR ELSE strs[j - 1]

Admissible(h, strs, j) ==
    /\ strs[j].epoch = (Pred(h, strs, j).epoch + 1) % EpochMod
    /\ strs[j].prev = Hash(Encode(Pred(h, strs, j)))
    /\ strs[j].sig = h.signKey

HasInadmissible(h, strs) == \E j \in 1 .. Len(strs) : ~Admissible(h, strs, j)

\* C1: all-or-nothing range admission.  An AuditId call on an existing record
\* with a range of k >= 1 STRs of which one fails chain admission returns an
\* error and leaves the record's verified STR and its snapshots map as they were.
C1_AllOrNothing ==
    [][(/\ op'.name = "AuditId"
        /\ has(log, op'.id)
        /\ op'.msg.err = Ok
        /\ Len(op'.msg.strs) >= 1
        /\ HasInadmissible(log[op'.id], op'.msg.strs))
       => /\ op'.err # Ok
          /\ has(log', op'.id)
          /\ log'[op'.id].verifiedSTR = log[op'.id].verifiedSTR
          /\ log'[op'.id].snapshots = log[op'.id].snapshots]_vars

\* An AuditId call has failed on a range whose first STR is admissible and
\* whose second is not.
C1_Witness ==
    /\ op.name = "AuditId"
    /\ op.err # Ok
    /\ has(log, op.id)
    /\ op.msg.err = Ok
    /\ Len(op.msg.strs) = 2
    /\ Admissible(log[op.id], op.msg.strs, 1)
    /\ ~Admissible(log[op.id], op.msg.strs, 2)

\* C10: no re-initialisation.  InitHistory for an identity the log already
\* holds returns ErrAuditLog and leaves the log, and so the record, unchanged.
C10_NoReinit ==
    [][(/\ op'.name = "InitHistory"
        /\ Len(op'.snaps) >= 1
        /\ has(log, ComputeDirectoryIdentity(op'.snaps[1])))
       => /\ op'.err = ErrAuditLog
          /\ log' = log]_vars

\* InitHistory has been refused for a known identity although it came with
\* another address, another key and further snapshots.
C10_Witness ==
    /\ op.name = "InitHistory"
    /\ op.err = ErrAuditLog
    /\ Len(op.snaps) > 1
    /\ has(log, ComputeDirectoryIdentity(op.snaps[1]))
    /\ op.addr # log[ComputeDirectoryIdentity(op.snaps[1])].addr
    /\ op.signKey # log[ComputeDirectoryIdentity(op.snaps[1])].signKey

\* C4: gap-free store.  Every record's snapshots map has exactly the keys
\* 0..n, n the epoch of its latest verified STR, and holds under key i an STR
\* of epoch i.
C4_GapFree ==
    \A id \in DOMAIN log :
        /\ DOMAIN log[id].snapshots = 0 .. log[id].verifiedSTR.epoch
        /\ \A i \in DOMAIN log[id].snapshots : log[id].snapshots[i].epoch = i

\* The list handed to InitHistory is a chain: each STR after the first is
\* admissible after the one before it, under the key supplied.
ChainValid(signKey, snaps) ==
    \A i \in 2 .. Len(snaps) :
        /\ snaps[i].epoch = i - 1
        /\ snaps[i].prev = Hash(Encode(snaps[i - 1]))
        /\ snaps[i].sig = signKey

\* C5: InitHistory admits snapshots[1:] through the range rule.  For a new
\* identity and a list that starts at epoch 0, a record is stored only if the
\* list is a chain under the supplied key.
C5_InitHistoryChecksRange ==
    [][(/\ op'.name = "InitHistory"
        /\ Len(op'.snaps) >= 1
        /\ op'.snaps[1].epoch = 0
        /\ ~has(log, ComputeDirectoryIdentity(op'.snaps[1]))
        /\ has(log', ComputeDirectoryIdentity(op'.snaps[1])))
       => ChainValid(op'.signKey, op'.snaps)]_vars

\* STR s of the record h under identity id passed chain admission: it is the
\* initial STR of the directory, or it follows the stored STR of the epoch
\* before it with a matching hash and a signature under the pinned key.
PassedAdmission(id, h, s) ==
    \/ s.epoch = 0 /\ ComputeDirectoryIdentity(s) = id
    \/ /\ (s.epoch + MaxEpoch) % EpochMod \in DOMAIN h.snapshots
       /\ s.prev = Hash(Encode(h.snapshots[(s.epoch + MaxEpoch) % EpochMod]))
       /\ s.sig = h.signKey

\* C6: GetObservedSTRs reflects only admitted data.  Every STR of a
\* successful response passed chain admission for that directory.
C6_OnlyAdmitted ==
    (op.name = "GetObservedSTRs" /\ op.resp.err = Ok)
    => \A i \in 1 .. Len(op.resp.strs) :
           op.resp.strs[i] # NilSTR
           => PassedAdmission(op.req.id, log[op.req.id], op.resp.strs[i])

\* The request is out of bounds for the record it names.
OutOfBounds(h, req) ==
    req.startEpoch > req.endEpoch \/ req.endEpoch > h.verifiedSTR.epoch

\* C8: range query bounds.  For a known identity GetObservedSTRs answers
\* ErrMalformedMessage exactly when startEpoch > endEpoch or endEpoch is
\* beyond the latest verified epoch, a response without error otherwise, and
\* a list of one STR when startEpoch = endEpoch is within bounds.
C8_RangeBounds ==
    (op.name = "GetObservedSTRs" /\ has(log, op.req.id))
    => /\ OutOfBounds(log[op.req.id], op.req)
            => op.resp = NewErrorResponse(ErrMalformedMessage)
       /\ ~OutOfBounds(log[op.req.id], op.req) => op.resp.err = Ok
       /\ (~OutOfBounds(log[op.req.id], op.req) /\ op.req.startEpoch = op.req.endEpoch)
            => Len(op.resp.strs) = 1

\* C9: range query result.  For a known identity and startEpoch <= endEpoch
\* <= latest verified epoch the response lists endEpoch - startEpoch + 1 STRs,
\* the i-th being the stored STR of epoch startEpoch + i, none missing.
C9_RangeResult ==
    (/\ op.name = "GetObservedSTRs"
     /\ has(log, op.req.id)
     /\ ~OutOfBounds(log[op.req.id], op.req))
    => /\ op.resp.err = Ok
       /\ Len(op.resp.strs) = op.req.endEpoch - op.req.startEpoch + 1
       /\ \A i \in 1 .. Len(op.resp.strs) :
              /\ op.resp.strs[i] # NilSTR
              /\ op.resp.strs[i].epoch = op.req.startEpoch + i - 1
              /\ op.req.startEpoch + i - 1 \in DOMAIN log[op.req.id].snapshots
              /\ op.resp.strs[i] = log[op.req.id].snapshots[op.req.startEpoch + i - 1]

\* Client c and the record under id hold, for epoch e >= 1, two different STRs
\* signed by the same key, after the same STR of epoch 0.
Forked(c, id, e) ==
    /\ e >= 1
    /\ {0, e} \subseteq DOMAIN log[id].snapshots
    /\ {0, e} \subseteq DOMAIN cc[c].history
    /\ log[id].snapshots[0] = cc[c].history[0]
    /\ log[id].snapshots[e] # cc[c].history[e]
    /\ log[id].snapshots[e].sig = cc[c].history[e].sig
    /\ log[id].snapshots[e].sig \in Keys

\* C2: equivocation detection.  When the log holds one STR of a fork for
\* epoch e and the client the other, CheckEquivocation on the log's response
\* for [e, e] returns an error.
C2_EquivocationDetected ==
    (/\ op.name = "CheckEquivocation"
     /\ has(log, op.req.id)
     /\ op.req.startEpoch = op.req.endEpoch
     /\ op.resp.err = Ok
     /\ Forked(op.c, op.req.id, op.req.startEpoch))
    => op.err = EquivocationDetected

\* A client on one side of a fork has cross-checked the log on the other side.
C2_Witness ==
    /\ op.name = "CheckEquivocation"
    /\ has(log, op.req.id)
    /\ op.req.startEpoch = op.req.endEpoch
    /\ op.resp.err = Ok
    /\ Forked(op.c, op.req.id, op.req.startEpoch)
    /\ log[op.req.id].snapshots[op.req.startEpoch].root
           # cc[op.c].history[op.req.startEpoch].root
    /\ op.err = EquivocationDetected

\* Every STR the log has admitted for id at an epoch client c holds is the
\* STR the client holds for that epoch.
SameView(c, id) ==
    \A a \in admitted[id] :
        a.epoch \in DOMAIN cc[c].history => cc[c].history[a.epoch] = a

\* C3: no false positives.  When the client and the log have admitted the same
\* STR for every epoch both hold, CheckEquivocation on a response of the log
\* returns nil.
C3_NoFalsePositive ==
    (/\ op.name = "CheckEquivocation"
     /\ op.resp.err = Ok
     /\ has(log, op.req.id)
     /\ SameView(op.c, op.req.id))
    => op.err = Ok

\* The client holds epochs 0..1, the log 0..2 of the same chain, and the
\* client has cross-checked the range [1, 2].
C3_Witness ==
    /\ op.name = "CheckEquivocation"
    /\ op.resp.err = Ok
    /\ has(log, op.req.id)
    /\ SameView(op.c, op.req.id)
    /\ DOMAIN cc[op.c].history = {0, 1}
    /\ DOMAIN log[op.req.id].snapshots = {0, 1, 2}
    /\ log[op.req.id].snapshots[1] = cc[op.c].history[1]
    /\ op.req.startEpoch = 1
    /\ op.req.endEpoch = 2
    /\ op.err = Ok

\* C7: no partially admitted range is observable.  Under SpecConc a
\* GetObservedSTRs call in progress never finds a latest verified epoch whose
\* STR is not stored, never returns a missing entry, and is never ended by the
\* runtime.
C7_NoPartialRange ==
    /\ rd.pc \in {"check", "loop"}
         => VerifiedSTR(log[rd.req.id]).epoch \in DOMAIN log[rd.req.id].snapshots
    /\ (rd.pc = "done" /\ rd.resp.err = Ok)
         => \A i \in 1 .. Len(rd.resp.strs) : rd.resp.strs[i] # NilSTR
    /\ rd.pc # "fatal"

\* C11: InitHistory input validation.  InitHistory with an empty list, or with
\* a list whose first STR is not of epoch 0, returns ErrMalformedMessage and
\* leaves the log (its identities and every record) unchanged.
C11_InitHistoryValidates ==
    [][(/\ op'.name = "InitHistory"
        /\ (Len(op'.snaps) = 0 \/ op'.snaps[1].epoch # 0))
       => /\ op'.err = ErrMalformedMessage
          /\ log' = log]_vars

\* InitHistory has been refused for a list that starts with an STR of a later
\* epoch, by a log that holds a record.
C11_Witness ==
    /\ op.name = "InitHistory"
    /\ Len(op.snaps) = 1
    /\ op.snaps[1].epoch # 0
    /\ op.snaps[1].sig = op.signKey
    /\ op.err = ErrMalformedMessage
    /\ log # New

\* C12: unknown directory.  AuditId and GetObservedSTRs for an identity the
\* log holds no record of return an unknown-directory error, which is not the
\* malformed-message error, whatever else is wrong with the call; no record
\* is created and the log is unchanged.
C12_UnknownDirectory ==
    [][/\ (op'.name = "AuditId" /\ ~has(log, op'.id))
            => /\ op'.err = ErrNotFound
               /\ op'.err # ErrMalformedMessage
               /\ log' = log
       /\ (op'.name = "GetObservedSTRs" /\ ~has(log, op'.req.id))
            => /\ op'.resp = NewErrorResponse(ReqUnknownDirectory)
               /\ op'.resp.err # ErrMalformedMessage
               /\ log' = log]_vars

\* AuditId has been refused for an unknown identity, with a range that is the
\* valid successor of that directory's initial STR, by a log that holds the
\* record of another directory.
C12_Witness ==
    /\ op.name = "AuditId"
    /\ ~has(log, op.id)
    /\ log # New
    /\ op.msg.err = Ok
    /\ Len(op.msg.strs) = 1
    /\ \E g \in Genesis :
           /\ ComputeDirectoryIdentity(g) = op.id
           /\ verifySTRConsistency(g.sig, g, op.msg.strs[1])
    /\ op.err = ErrNotFound

LargestEpoch(h) == CHOOSE e \in DOMAIN h.snapshots : \A f \in DOMAIN h.snapshots : f <= e

\* C14: no rollback.  From one state to the next the epoch of a record's
\* latest verified STR never decreases, and after every call it is the largest
\* epoch the record's snapshots map has an entry for.
C14_NoRollback ==
    [][\A id \in DOMAIN log' :
           /\ has(log, id)
                => log'[id].verifiedSTR.epoch >= log[id].verifiedSTR.epoch
           /\ log'[id].verifiedSTR.epoch = LargestEpoch(log'[id])]_vars

\* C15: successful extension.  When AuditId returns nil for a record whose
\* latest verified epoch is n and a range of k >= 1 STRs, the record's latest
\* verified STR is the last of the range, its epoch is n + k, every STR of the
\* range is stored under its own epoch, and the entries of epochs 0..n are as
\* they were.
C15_Extension ==
    [][(/\ op'.name = "AuditId"
        /\ op'.err = Ok
        /\ has(log, op'.id))
       => LET h == log[op'.id]
              g == log'[op'.id]
              strs == op'.msg.strs
              n == h.verifiedSTR.epoch
              k == Len(strs)
          IN  /\ k >= 1
              /\ g.verifiedSTR = strs[k]
              /\ g.verifiedSTR.epoch = n + k
              /\ \A j \in 1 .. k : snapshotAt(g, strs[j].epoch) = strs[j]
              /\ \A e \in 0 .. n : snapshotAt(g, e) = snapshotAt(h, e)]_vars

\* C16: no overlap is not an error.  When every STR of the auditor's range is
\* of an epoch the client has not admitted, CheckEquivocation returns nil.
C16_NoOverlapIsNoError ==
    (/\ op.name = "CheckEquivocation"
     /\ op.resp.err = Ok
     /\ Len(op.resp.strs) >= 1
     /\ \A i \in 1 .. Len(op.resp.strs) :
            /\ op.resp.strs[i] # NilSTR
            /\ op.resp.strs[i].epoch \notin DOMAIN cc[op.c].history)
    => op.err = Ok

\* A client that holds only the initial STR has cross-checked the range [1, 1]
\* of a log that holds the same initial STR and its valid successor.
C16_Witness ==
    /\ op.name = "CheckEquivocation"
    /\ op.resp.err = Ok
    /\ has(log, op.req.id)
    /\ op.req.startEpoch = 1
    /\ op.req.endEpoch = 1
    /\ DOMAIN cc[op.c].history = {0}
    /\ Len(op.resp.strs) = 1
    /\ snapshotAt(log[op.req.id], 0) = cc[op.c].history[0]
    /\ verifySTRConsistency(cc[op.c].signKey, cc[op.c].verifiedSTR, op.resp.strs[1])
    /\ op.err = Ok

\* The STRs that extend the client's own chain by one epoch.
NextOfOwnChain(c) ==
    {STR((c.verifiedSTR.epoch + 1) % EpochMod, r, Hash(Encode(c.verifiedSTR)), c.signKey) :
        r \in Roots}

\* C17: CheckEquivocation does not change the checker.  Whatever it returns,
\* the client's pinned key and latest verified STR are as before the call, and
\* HandleResponse still admits the next STR of the client's own chain.
C17_CheckerUnchanged ==
    [][op'.name = "CheckEquivocation"
       => /\ cc'[op'.c].signKey = cc[op'.c].signKey
          /\ cc'[op'.c].verifiedSTR = cc[op'.c].verifiedSTR
          /\ cc' = cc
          /\ \A nxt \in NextOfOwnChain(cc'[op'.c]) :
                 /\ HandleResponseOp(cc'[op'.c], nxt, Ok).err = Ok
                 /\ HandleResponseOp(cc'[op'.c], nxt, Ok).c.verifiedSTR = nxt]_vars

\* A client has been told of an equivocation by a range whose last STR is not
\* the one it holds as its latest.
C17_Witness ==
    /\ op.name = "CheckEquivocation"
    /\ op.err = EquivocationDetected
    /\ op.resp.strs[Len(op.resp.strs)] # NilSTR
    /\ op.resp.strs[Len(op.resp.strs)] # cc[op.c].verifiedSTR
    /\ cc[op.c].verifiedSTR.epoch = 1

\* C18: GetObservedSTRs is a pure read.  Whatever the request and the
\* response, the log after the call (its identities and, for each, address,
\* key, latest verified STR and snapshots map) is the log before the call.
C18_PureRead ==
    [][op'.name = "GetObservedSTRs"
       => /\ DOMAIN log' = DOMAIN log
          /\ \A id \in DOMAIN log :
                 /\ log'[id].addr = log[id].addr
                 /\ log'[id].signKey = log[id].signKey
                 /\ log'[id].verifiedSTR = log[id].verifiedSTR
                 /\ log'[id].snapshots = log[id].snapshots]_vars

\* A successful GetObservedSTRs call has read an epoch the record has no entry
\* for, and the record still has none.
C18_Witness ==
    /\ op.name = "GetObservedSTRs"
    /\ op.resp.err = Ok
    /\ has(log, op.req.id)
    /\ \E i \in 1 .. Len(op.resp.strs) :
           /\ op.resp.strs[i] = NilSTR
           /\ op.req.startEpoch + i - 1 \notin DOMAIN log[op.req.id].snapshots

\* A call of InitHistory or AuditId, as recorded in op: the identity it is
\* about (none for an InitHistory without snapshots) and the log after it.
Target(call) ==
    IF call.name = "AuditId" THEN {call.id}
    ELSE IF Len(call.snaps) >= 1 THEN {ComputeDirectoryIdentity(call.snaps[1])}
    ELSE {}

Apply(l, call) ==
    IF call.name = "AuditId" THEN AuditIdOp(l, call.id, call.msg).log
    ELSE InitHistoryOp(l, call.addr, call.signKey, call.snaps).log

\* The calls a caller can make about identity id.
CallsOn(id) ==
    {[name |-> "AuditId", id |-> id, msg |-> msg] : msg \in DirsRanges(id)}
    \cup {[name |-> "InitHistory", addr |-> cfg.addr, signKey |-> cfg.signKey,
           snaps |-> snaps] :
              cfg \in Configs,
              snaps \in {sn \in DirsSnapLists :
                            Len(sn) >= 1 /\ ComputeDirectoryIdentity(sn[1]) = id}}

\* C19: directory independence.  Under SpecDirs an InitHistory or AuditId call
\* about identity A, whatever it returns, neither adds, removes nor changes
\* the record of any other identity, and it commutes with every call about
\* another identity: made in either order, the two calls give the same log.
C19_Independence ==
    [][op'.name \in {"InitHistory", "AuditId"}
       => /\ \A id \in (DOMAIN log \cup DOMAIN log') \ Target(op') :
                 /\ has(log, id)
                 /\ has(log', id)
                 /\ log'[id] = log[id]
          /\ \A id \in Ids \ Target(op') :
                 \A call \in CallsOn(id) :
                     Apply(Apply(log, call), op') = Apply(log', call)]_vars

\* AuditId has extended the record of one directory in a log that holds the
\* record of another, which has itself been extended.
C19_Witness ==
    /\ op.name = "AuditId"
    /\ op.err = Ok
    /\ \E id \in DOMAIN log :
           /\ id # op.id
           /\ log[id].verifiedSTR.epoch >= 1
           /\ log[id].addr # log[op.id].addr

\* C20: GetObservedSTRs terminates.  Under SpecTerm every call that has begun
\* comes to its return, whatever the request and the record.
C20_Terminates == (rd.pc \in {"check", "loop"}) ~> (rd.pc = "done")

====
